---- MODULE Spec2Model ----
(***************************************************************************)
(* State-machine model of the celeritas RAG chat service: the relational   *)
(* tables (Document, Interaction, InteractionDocument, Feedback), the      *)
(* vector index, and the request handlers of                               *)
(* app/api/routes/documents.py and app/api/routes/chat.py together with    *)
(* the retrieval tool of app/core/agent.py.                                *)
(*                                                                         *)
(* Each handler is split at the points where its effects become visible to *)
(* other sessions: every db.commit(), every await, every call into the     *)
(* vector store.  The database variables hold COMMITTED rows only; rows    *)
(* that a session has added or flushed but not committed live in the       *)
(* request record of that handler.                                         *)
(***************************************************************************)
EXTENDS Integers, Sequences, FiniteSets, TLC

(***************************************************************************)
(* Bounds of the model.                                                    *)
(***************************************************************************)
MaxBatch == 3          \* files carried by one upload request
MaxClaims == 3         \* length of the agent's used_documents list
MaxInteractions == 1   \* message turns that reach Interaction creation
MaxToolCalls == 1      \* retrieve_context calls in one turn
ChunksPerDoc == 3      \* chunks the text splitter yields for one PDF
MaxNameLen == 3        \* characters of a client-supplied filename
MaxDocs == 1           \* Document rows while clients choose filenames freely
MaxTurns == 2          \* ainvoke calls started
MaxConversations == 2  \* conversations created
MaxClock == 3          \* timestamps taken by conversation requests

(***************************************************************************)
(* Program constants.                                                      *)
(***************************************************************************)
SearchK == 4           \* k of similarity_search in retrieve_context

\* Strings that the code takes apart (filenames, paths) are sequences of
\* characters.
Filenames == {<<"a">>, <<"b">>}          \* names well-behaved clients upload
GhostNames == {<<"g">>}                  \* names the agent may hallucinate
DocDir == <<"d">>                        \* settings.DOC_DIR_PATH
Chars == {"/", ".", "a"}                 \* characters of a raw multipart filename
\* the fixed advisory string of retrieve_context
Advisory ==
    "The document vector store is currently empty. Notify the user and suggest to upload documents."

VARIABLES
    documents,      \* committed Document rows: [id, filename]
    interactions,   \* committed Interaction rows (their ids)
    idocs,          \* committed InteractionDocument rows
    feedbacks,      \* committed Feedback rows: [id, interaction_id, is_positive]
    index,          \* the Chroma collection: a sequence of chunks
    up,             \* the upload request in flight
    del,            \* position of the delete-all request in flight
    msg,            \* the message request in flight
    fb,             \* history: the polarity last submitted for each interaction
    alive,          \* whether the store still holds a handle to its collection
    cited,          \* history: the filename each committed usage row was recorded for
    history,        \* the checkpointer: the message history of each thread_id
    turns,          \* the ainvoke calls in flight
    conversations,  \* committed Conversation rows
    reply,          \* the response of the latest conversation request
    clock           \* the time of the latest timestamp and the uuids drawn

agentVars == <<history, turns>>
convVars == <<conversations, reply, clock>>

vars == <<documents, interactions, idocs, feedbacks, index, up, del, msg, fb,
          alive, cited, agentVars, convVars>>

(***************************************************************************)
(* Helpers                                                                 *)
(***************************************************************************)
Max(S) == CHOOSE x \in S : \A y \in S : y <= x

\* INTEGER PRIMARY KEY of SQLite (no AUTOINCREMENT): largest rowid in the table plus one.
NextId(ids) == IF ids = {} THEN 1 ELSE Max(ids) + 1

SeqOfLen(S, n) == UNION {[1..k -> S] : k \in 0..n}

Range(s) == {s[i] : i \in 1..Len(s)}

\* select(Document).where(Document.filename == name): the matching rows
FindDocument(docs, name) == {d \in docs : d.filename = name}

\* str.split(sep): the pieces of s between the occurrences of sep
RECURSIVE SplitOn(_, _)
SplitOn(s, sep) ==
    IF \A i \in 1..Len(s) : s[i] # sep THEN <<s>>
    ELSE LET i == CHOOSE j \in 1..Len(s) : s[j] = sep /\ \A l \in 1..(j - 1) : s[l] # sep
         IN <<SubSeq(s, 1, i - 1)>> \o SplitOn(SubSeq(s, i + 1, Len(s)), sep)

\* sep.join(pieces)
RECURSIVE JoinWith(_, _)
JoinWith(pieces, sep) ==
    IF pieces = <<>> THEN <<>>
    ELSE IF Len(pieces) = 1 THEN pieces[1]
    ELSE pieces[1] \o <<sep>> \o JoinWith(Tail(pieces), sep)

\* number of "/" that s starts with
RECURSIVE LeadingSlashes(_)
LeadingSlashes(s) ==
    IF s # <<>> /\ Head(s) = "/" THEN 1 + LeadingSlashes(Tail(s)) ELSE 0

\* pathlib.Path(s) on a POSIX host: the root ("", "/", or "//" for exactly
\* two leading slashes) and the segments, empty and "." segments dropped.
PurePath(s) ==
    [root |-> IF LeadingSlashes(s) = 0 THEN <<>>
              ELSE IF LeadingSlashes(s) = 2 THEN <<"/", "/">> ELSE <<"/">>,
     parts |-> SelectSeq(SplitOn(s, "/"), LAMBDA seg : seg # <<>> /\ seg # <<".">>)]

\* p / q: a rooted q replaces p
PathJoin(p, q) ==
    IF q.root # <<>> THEN q ELSE [root |-> p.root, parts |-> p.parts \o q.parts]

\* str(path)
PathStr(p) ==
    IF p.root = <<>> /\ p.parts = <<>> THEN <<".">> ELSE p.root \o JoinWith(p.parts, "/")

\* upload_dir / Path(file.filename), as the string the loader records in
\* metadata["source"]
FilePath(name) == PathStr(PathJoin(PurePath(DocDir), PurePath(name)))

\* file_path.open("wb").  A file directly inside the upload directory can be
\* written (line 52 has made the directory); a path that names a directory
\* cannot; whether any other place can be written is up to the host
\* (`elsewhere`).
CanOpen(name, elsewhere) ==
    LET p == PathJoin(PurePath(DocDir), PurePath(name))
        n == Len(p.parts)
    IN IF n = 0 \/ p.parts[n] = <<".", ".">> THEN FALSE
       ELSE IF p.root = PurePath(DocDir).root
                 /\ SubSeq(p.parts, 1, n - 1) = PurePath(DocDir).parts THEN TRUE
       ELSE elsewhere

\* doc.metadata["source"].split("/")[-1]
Basename(path) == LET pieces == SplitOn(path, "/") IN pieces[Len(pieces)]

(***************************************************************************)
(* Vector store (app/core/document.py)                                     *)
(***************************************************************************)
\* text_splitter.split_documents(docs): the chunks of one PDF, each carrying
\* the path it was loaded from as metadata["source"]
SplitDocuments(path) == [k \in 1..ChunksPerDoc |-> [source |-> path, content |-> k]]

\* The store keeps a handle to its Chroma collection, created when the
\* process starts (lines 19-23 and 58-62).  delete_collection drops the
\* collection and the handle with it: from then on every call that needs
\* the collection (get, add, search) raises, until the process is started
\* again.  `alive` says whether the handle is there; `index` holds the chunks
\* of the collection.

\* VectorStore.is_empty, on a store whose handle is there
IsEmpty(idx) == Len(idx) = 0

\* VectorStore.process_pdf: load, split, then one aadd_documents call.  The
\* load or the embedding may fail (ok = FALSE); the exception is raised before
\* the collection is written, so it leaves the collection as it was.
ProcessPdf(idx, path, ok) ==
    IF ok THEN idx \o SplitDocuments(path) ELSE idx

\* chunks of the collection that came from the file stored under `name`
ChunksOf(idx, name) == {i \in 1..Len(idx) : idx[i].source = FilePath(name)}

(***************************************************************************)
(* upload_documents (app/api/routes/documents.py)                          *)
(***************************************************************************)
UploadFiles == [filename : Filenames, pdf : BOOLEAN]

\* up.rowsPurged and up.indexPurged are history: a delete-all request
\* committed its row deletion, or deleted the collection, while this upload
\* was waiting for its embedding tasks.
IdleUpload ==
    [pc |-> "idle", files |-> <<>>, before |-> {}, valid |-> <<>>, written |-> <<>>,
     results |-> <<>>, successful |-> <<>>, failed |-> <<>>,
     rowsPurged |-> FALSE, indexPurged |-> FALSE]

\* Faulty variant of IsDuplicate: the duplicate check is skipped.
IsDuplicateUnchecked(docs, name) == FALSE

\* The duplicate check of the first pass.  The session autoflushes before the
\* SELECT, so `docs` holds the committed rows and the rows this request added.
IsDuplicate(docs, name) == FindDocument(docs, name) # {}

\* The first pass over the request's files (lines 37-79).  acc.docs is the
\* Document table as this session sees it, acc.written the files it stored in
\* the upload directory (in order), acc.valid the list
\* valid_files_to_process, acc.failed the list failed_uploads.  When a file
\* cannot be opened for writing the exception leaves the handler
\* (acc.aborted); the files stored before it stay where they are.
RECURSIVE FirstPass(_, _, _)
FirstPass(files, acc, elsewhere) ==
    IF files = <<>> THEN acc
    ELSE LET file == Head(files) IN
         IF ~file.pdf
         THEN FirstPass(Tail(files),
                  [acc EXCEPT !.failed = Append(@, [filename |-> file.filename, error |-> "not_pdf"])],
                  elsewhere)
         ELSE IF IsDuplicate(acc.docs, file.filename)
         THEN FirstPass(Tail(files),
                  [acc EXCEPT !.failed = Append(@, [filename |-> file.filename, error |-> "exists"])],
                  elsewhere)
         ELSE IF ~CanOpen(file.filename, elsewhere)
         THEN [acc EXCEPT !.aborted = TRUE]
         ELSE LET doc == [id |-> NextId({d.id : d \in acc.docs}), filename |-> file.filename] IN
              FirstPass(Tail(files),
                  [acc EXCEPT !.docs = @ \cup {doc},
                              !.written = Append(@, file.filename),
                              !.valid = Append(@, [doc |-> doc, path |-> FilePath(file.filename)])],
                  elsewhere)

\* Lines 32-86: first pass, early return when nothing is valid, else commit of
\* the new Document rows; the handler then awaits the embedding tasks.  When
\* the first pass raised, the session is closed without a commit and the
\* client gets a 500.  up.before (the Document rows at arrival) and
\* up.written (the files stored) are history, kept for the properties.
UploadStart(files, elsewhere) ==
    /\ up.pc = "idle"
    /\ LET r == FirstPass(files,
                    [docs |-> documents, written |-> <<>>, valid |-> <<>>, failed |-> <<>>,
                     aborted |-> FALSE],
                    elsewhere)
       IN IF r.aborted
          THEN /\ up' = [IdleUpload EXCEPT !.pc = "failed", !.files = files,
                                           !.before = documents, !.written = r.written]
               /\ UNCHANGED documents
          ELSE IF r.valid = <<>>
          THEN /\ up' = [IdleUpload EXCEPT !.pc = "returned", !.files = files,
                                           !.before = documents, !.failed = r.failed]
               /\ UNCHANGED documents
          ELSE /\ documents' = r.docs
               /\ up' = [IdleUpload EXCEPT !.pc = "embedding", !.files = files,
                                           !.before = documents,
                                           !.valid = r.valid, !.written = r.written,
                                           !.results = [i \in 1..Len(r.valid) |-> "pending"],
                                           !.failed = r.failed]
    /\ UNCHANGED <<interactions, idocs, feedbacks, index, del, msg, fb, alive, cited, agentVars, convVars>>

\* Lines 88-94: one of the gathered process_pdf tasks finishes, with a result
\* or with an exception (return_exceptions=True).
UploadProcess ==
    /\ up.pc = "embedding"
    /\ \E i \in 1..Len(up.valid), ok \in BOOLEAN :
          /\ up.results[i] = "pending"
          /\ ok => alive
          /\ index' = ProcessPdf(index, up.valid[i].path, ok)
          /\ up' = [up EXCEPT !.results[i] = IF ok THEN "ok" ELSE "error"]
    /\ UNCHANGED <<documents, interactions, idocs, feedbacks, del, msg, fb, alive, cited, agentVars, convVars>>

\* Faulty variant of WithResult: an exception among the gathered results is
\* taken for a result.
WithResultIgnoringExceptions(results, outcome) ==
    IF outcome = "ok" THEN [i \in 1..Len(results) |-> i] ELSE <<>>

\* positions of valid_files_to_process whose task ended with `outcome`, in order
WithResult(results, outcome) ==
    SelectSeq([i \in 1..Len(results) |-> i], LAMBDA i : results[i] = outcome)

\* Faulty variant of RolledBack: one failure rolls back the whole batch.
RolledBackBatch(valid, results) ==
    IF \E j \in 1..Len(valid) : results[j] = "error"
    THEN {valid[i].doc : i \in 1..Len(valid)}
    ELSE {}

\* Lines 96-115, the rows the cleanup loop deletes: the failed files' rows.
\* (db.delete of a row that is gone deletes nothing.)
RolledBack(valid, results) ==
    {valid[i].doc : i \in {j \in 1..Len(valid) : results[j] = "error"}}

\* Faulty variant of DeleteBlocked: usage rows never stand in the way of a
\* delete.
DeleteNeverBlocked(docs, rows) == FALSE

\* The flush of db.delete(document).  Document.interaction_links
\* (models.py 23-25) has no delete cascade, so the session loads the usage
\* rows of every Document it deletes in order to detach them, and raises
\* because their document_id is part of the primary key (models.py 104-105).
\* The flush fails when a committed usage row refers to one of `docs`.
DeleteBlocked(docs, rows) == \E d \in docs, r \in rows : r.document_id = d.id

\* Lines 96-117: the cleanup loop over the gathered results and the commit.
UploadCleanup ==
    /\ up.pc = "embedding"
    /\ \A i \in 1..Len(up.valid) : up.results[i] # "pending"
    /\ IF DeleteBlocked(RolledBack(up.valid, up.results), idocs)
       THEN /\ up' = [up EXCEPT !.pc = "failed"]
            /\ UNCHANGED documents
       ELSE /\ LET oks == WithResult(up.results, "ok")
                   errs == WithResult(up.results, "error")
               IN up' = [up EXCEPT
                           !.pc = "returned",
                           !.successful = [k \in 1..Len(oks) |-> up.valid[oks[k]].doc],
                           !.failed = @ \o [k \in 1..Len(errs) |->
                                              [filename |-> up.valid[errs[k]].doc.filename,
                                               error |-> "process"]]]
            /\ documents' = documents \ RolledBack(up.valid, up.results)
    /\ UNCHANGED <<interactions, idocs, feedbacks, index, del, msg, fb, alive, cited, agentVars, convVars>>

\* Lines 82 and 119-121: the UploadResponse (or the 500) goes out and the
\* request ends.
UploadReturn ==
    /\ up.pc \in {"returned", "failed"}
    /\ up' = IdleUpload
    /\ UNCHANGED <<documents, interactions, idocs, feedbacks, index, del, msg, fb, alive, cited, agentVars, convVars>>

(***************************************************************************)
(* delete_all_docs (app/api/routes/documents.py)                           *)
(***************************************************************************)
\* the upload request is at line 94, with an embedding task not yet finished
Embedding(u) ==
    u.pc = "embedding" /\ \E i \in 1..Len(u.results) : u.results[i] = "pending"

\* Lines 19-22: every Document row is deleted and the deletion committed;
\* when the flush raises, nothing is deleted and the request ends in a 500.
DeleteAllDocsRows ==
    /\ del = "idle"
    /\ IF DeleteBlocked(documents, idocs)
       THEN del' = "failed" /\ UNCHANGED <<documents, up>>
       ELSE /\ del' = "purging"
            /\ documents' = {}
            /\ up' = IF Embedding(up) THEN [up EXCEPT !.rowsPurged = TRUE] ELSE up
    /\ UNCHANGED <<interactions, idocs, feedbacks, index, msg, fb, alive, cited, agentVars, convVars>>

\* VectorStore.delete_all_docs: the chunks left in the collection
DeleteCollection(idx) == <<>>

\* Lines 23-24: the collection is deleted and the request returns.  (On a
\* store that has lost its handle already the call raises; the state is the
\* same.)
DeleteAllDocsIndex ==
    /\ del = "purging"
    /\ index' = DeleteCollection(index)
    /\ alive' = FALSE
    /\ del' = "idle"
    /\ up' = IF Embedding(up) THEN [up EXCEPT !.indexPurged = TRUE] ELSE up
    /\ UNCHANGED <<documents, interactions, idocs, feedbacks, msg, fb, cited, agentVars, convVars>>

\* The 500 of a delete-all whose commit raised goes out.
DeleteAllDocsFail ==
    /\ del = "failed"
    /\ del' = "idle"
    /\ UNCHANGED <<documents, interactions, idocs, feedbacks, index, up, msg, fb, alive, cited, agentVars, convVars>>

(***************************************************************************)
(* retrieve_context (app/core/agent.py)                                    *)
(***************************************************************************)
Min(a, b) == IF a <= b THEN a ELSE b

\* VectorStore.similarity_search(query, k): at most k chunks of the
\* collection, ranked by the embedding model; every ranking is possible.
SimilaritySearch(idx, k) ==
    {[i \in 1..Len(r) |-> idx[r[i]]] :
        r \in {s \in [1..Min(k, Len(idx)) -> 1..Len(idx)] :
                 \A i, j \in 1..Min(k, Len(idx)) : i # j => s[i] # s[j]}}

\* The blank line that "\n\n".join puts between two blocks
BlankLine == [tag |-> "", value |-> <<>>]

\* Faulty variant of Serialize: the source line carries the stored path.
SerializeSourcePath(hits) ==
    [i \in 1..Len(hits) |->
        <<[tag |-> "Source: ", value |-> hits[i].source],
          [tag |-> "Content: ", value |-> hits[i].content]>>]

\* Lines 105-117, serialized_docs: one block per hit, in the order of the
\* hits; a block is the line "Source: <basename>" and the line
\* "Content: <text>".
Serialize(hits) ==
    [i \in 1..Len(hits) |->
        <<[tag |-> "Source: ", value |-> Basename(hits[i].source)],
          [tag |-> "Content: ", value |-> hits[i].content]>>]

\* Faulty variant of RetrieveContext: the emptiness guard is missing.
RetrieveContextUnguarded(empty, hits) ==
    [text |-> "context", lines |-> JoinWith(Serialize(hits), BlankLine), searched |-> TRUE]

\* Lines 96-122 on a store whose handle is there.  `empty` is what is_empty
\* answered, `hits` what similarity_search returns if it is called.  The
\* string returned is either the advisory (text = Advisory) or the joined
\* blocks (text = "context", its lines in `lines`); `searched` records
\* whether similarity_search was called.
RetrieveContext(empty, hits) ==
    IF empty
    THEN [text |-> Advisory, lines |-> <<>>, searched |-> FALSE]
    ELSE [text |-> "context", lines |-> JoinWith(Serialize(hits), BlankLine), searched |-> TRUE]

\* The tool call ends in the exception the store raised.
ToolError(searched) == [text |-> "error", lines |-> <<>>, searched |-> searched]

(***************************************************************************)
(* message (app/api/routes/chat.py)                                        *)
(***************************************************************************)
ClaimNames == Filenames \cup GhostNames

NoTool == [text |-> "none", lines |-> <<>>, searched |-> FALSE]

\* msg.tool is what the latest retrieve_context call returned.  History kept
\* for the properties: emptyAtCall (what is_empty answered), hits (what
\* similarity_search returned), onPurged (similarity_search was called on a
\* deleted collection), cites (the filename behind each usage row added).
IdleMsg ==
    [pc |-> "idle", error |-> "none", claimed |-> <<>>, idx |-> 0,
     interaction_id |-> 0, pending |-> <<>>, flushed |-> {}, used |-> <<>>,
     toolCalls |-> 0, retrieving |-> FALSE, tool |-> NoTool, emptyAtCall |-> FALSE,
     hits |-> <<>>, onPurged |-> FALSE, cites |-> {}]

\* Lines 29-34: the handler starts and awaits agent.ainvoke.
MsgStart ==
    /\ msg.pc = "idle"
    /\ Cardinality(interactions) < MaxInteractions
    /\ msg' = [IdleMsg EXCEPT !.pc = "invoking"]
    /\ UNCHANGED <<documents, interactions, idocs, feedbacks, index, up, del, fb, alive, cited, agentVars, convVars>>

\* agent.py 93-99: the agent calls its retrieval tool, which asks the store
\* whether it is empty.
MsgRetrieveCheck ==
    /\ msg.pc = "invoking"
    /\ ~msg.retrieving
    /\ msg.tool = NoTool
    /\ msg.toolCalls < MaxToolCalls
    /\ msg' = IF alive
              THEN [msg EXCEPT !.toolCalls = @ + 1, !.retrieving = TRUE,
                               !.emptyAtCall = IsEmpty(index)]
              ELSE [msg EXCEPT !.toolCalls = @ + 1, !.tool = ToolError(FALSE)]
    /\ UNCHANGED <<documents, interactions, idocs, feedbacks, index, up, del, fb, alive, cited, agentVars, convVars>>

\* agent.py 99-122: the tool returns the advisory, or searches and returns
\* the serialized hits.
MsgRetrieveSearch ==
    /\ msg.pc = "invoking"
    /\ msg.retrieving
    /\ \E hits \in SimilaritySearch(index, SearchK) :
          LET result == RetrieveContext(msg.emptyAtCall, hits) IN
          msg' = IF result.searched /\ ~alive
                 THEN [msg EXCEPT !.retrieving = FALSE, !.tool = ToolError(TRUE),
                                  !.onPurged = TRUE]
                 ELSE [msg EXCEPT !.retrieving = FALSE, !.tool = result,
                                  !.hits = IF result.searched THEN hits ELSE <<>>]
    /\ UNCHANGED <<documents, interactions, idocs, feedbacks, index, up, del, fb, alive, cited, agentVars, convVars>>

\* The tool's return value (or its exception) goes back to the agent loop as
\* a ToolMessage; the call is over.
MsgToolResult ==
    /\ msg.pc = "invoking"
    /\ ~msg.retrieving
    /\ msg.tool # NoTool
    /\ msg' = [msg EXCEPT !.tool = NoTool, !.emptyAtCall = FALSE, !.hits = <<>>,
                          !.onPurged = FALSE]
    /\ UNCHANGED <<documents, interactions, idocs, feedbacks, index, up, del, fb, alive, cited, agentVars, convVars>>

\* Faulty variant of MsgAgentFail: the Interaction row is committed before
\* the agent is invoked, so a failed turn leaves it behind.
MsgAgentFailAfterInsert ==
    /\ msg.pc = "invoking"
    /\ ~msg.retrieving
    /\ msg.tool = NoTool
    /\ msg' = [IdleMsg EXCEPT !.pc = "failed", !.error = "agent"]
    /\ interactions' = interactions \cup {(IF interactions = {} THEN 0 ELSE Max(interactions)) + 1}
    /\ UNCHANGED <<documents, idocs, feedbacks, index, up, del, fb, alive, cited, agentVars, convVars>>

\* Lines 32-40 with agent.py 151-160: ainvoke raises, the handler answers 500.
MsgAgentFail ==
    /\ msg.pc = "invoking"
    /\ ~msg.retrieving
    /\ msg.tool = NoTool
    /\ msg' = [IdleMsg EXCEPT !.pc = "failed", !.error = "agent"]
    /\ UNCHANGED <<documents, interactions, idocs, feedbacks, index, up, del, fb, alive, cited, agentVars, convVars>>

\* Lines 33-57: ainvoke returns the structured response with used_documents =
\* claimed; the Interaction row is added and committed.  With an empty list
\* the handler goes straight to the return of line 79.
MsgAgentOk(claimed) ==
    /\ msg.pc = "invoking"
    /\ ~msg.retrieving
    /\ msg.tool = NoTool
    /\ LET id == NextId(interactions) IN
          /\ interactions' = interactions \cup {id}
          /\ msg' = [IdleMsg EXCEPT !.pc = IF claimed = <<>> THEN "returned" ELSE "reconciling",
                                    !.claimed = claimed, !.idx = 1, !.interaction_id = id]
    /\ UNCHANGED <<documents, idocs, feedbacks, index, up, del, fb, alive, cited, agentVars, convVars>>

\* InteractionDocument's composite primary key (interaction_id, document_id)
Key(row) == <<row.interaction_id, row.document_id>>

\* A flush of the pending rows fails when a row's primary key is already
\* held by a row of the table or by an earlier pending row.
FlushConflict(pending, persistent) ==
    \E i \in 1..Len(pending) :
       \/ Key(pending[i]) \in {Key(r) : r \in persistent}
       \/ \E j \in 1..(i - 1) : Key(pending[j]) = Key(pending[i])

\* Faulty variant of UsageRow: the order recorded is the document's id.
UsageRowByDocument(interaction_id, document, idx) ==
    [interaction_id |-> interaction_id, document_id |-> document.id,
     usage_order |-> document.id]

\* Lines 63-70: the row added for a claimed name whose Document was found
UsageRow(interaction_id, document, idx) ==
    [interaction_id |-> interaction_id, document_id |-> document.id, usage_order |-> idx]

\* Lines 58-75: one iteration of the loop over used_documents.  The SELECT of
\* line 61 first autoflushes the rows added so far.
MsgLoopStep ==
    /\ msg.pc = "reconciling"
    /\ msg.idx <= Len(msg.claimed)
    /\ IF FlushConflict(msg.pending, msg.flushed \cup idocs)
       THEN msg' = [msg EXCEPT !.pc = "failed", !.error = "db",
                               !.pending = <<>>, !.flushed = {}, !.cites = {}]
       ELSE LET name == msg.claimed[msg.idx]
                found == FindDocument(documents, name)
            IN msg' = [msg EXCEPT
                         !.flushed = @ \cup Range(msg.pending),
                         !.pending = IF found = {} THEN <<>>
                                     ELSE <<UsageRow(msg.interaction_id,
                                                     CHOOSE d \in found : TRUE, msg.idx)>>,
                         !.used = IF found = {} THEN @ ELSE Append(@, name),
                         !.cites = IF found = {} THEN @
                                   ELSE @ \cup {[interaction_id |-> msg.interaction_id,
                                                  document_id |-> (CHOOSE d \in found : TRUE).id,
                                                  filename |-> name]},
                         !.idx = @ + 1]
    /\ UNCHANGED <<documents, interactions, idocs, feedbacks, index, up, del, fb, alive, cited, agentVars, convVars>>

\* Line 77: db.commit() flushes what is pending and commits the usage rows.
MsgCommit ==
    /\ msg.pc = "reconciling"
    /\ msg.idx > Len(msg.claimed)
    /\ IF FlushConflict(msg.pending, msg.flushed \cup idocs)
       THEN /\ msg' = [msg EXCEPT !.pc = "failed", !.error = "db",
                                  !.pending = <<>>, !.flushed = {}, !.cites = {}]
            /\ UNCHANGED <<idocs, cited>>
       ELSE /\ idocs' = idocs \cup msg.flushed \cup Range(msg.pending)
            /\ cited' = cited \cup msg.cites
            /\ msg' = [msg EXCEPT !.pc = "returned", !.pending = <<>>, !.flushed = {},
                                  !.cites = {}]
    /\ UNCHANGED <<documents, interactions, feedbacks, index, up, del, fb, alive, agentVars, convVars>>

\* Lines 79-83 (the MessageResponse) or the 500 answer: the request ends.
MsgReturn ==
    /\ msg.pc \in {"returned", "failed"}
    /\ msg' = IdleMsg
    /\ UNCHANGED <<documents, interactions, idocs, feedbacks, index, up, del, fb, alive, cited, agentVars, convVars>>

(***************************************************************************)
(* get_recent_interactions (app/api/routes/analytics.py)                   *)
(***************************************************************************)
\* Lines 170-190, used_documents of one interaction: the filenames of the
\* Document rows joined to the interaction's usage rows, ordered by
\* usage_order.  The database may give rows of equal usage_order in any
\* order, so the result is one of a set of lists.
UsedDocuments(docs, rows, interaction_id) ==
    LET joined == {<<r, d>> \in rows \X docs :
                      r.interaction_id = interaction_id /\ r.document_id = d.id}
        n == Cardinality(joined)
    IN {[i \in 1..n |-> s[i][2].filename] :
           s \in {t \in [1..n -> joined] :
                     /\ \A i, k \in 1..n : i # k => t[i] # t[k]
                     /\ \A i, k \in 1..n : i < k => t[i][1].usage_order <= t[k][1].usage_order}}

(***************************************************************************)
(* submit_feedback (app/api/routes/chat.py)                                *)
(***************************************************************************)
\* ids a client may submit feedback for (one of them never exists)
InteractionIds == 1..(MaxInteractions + 1)

\* Faulty variant of UpsertFeedback: every submission inserts a row.
InsertFeedback(fbs, iid, positive) ==
    fbs \cup {[id |-> (IF fbs = {} THEN 0 ELSE Max({f.id : f \in fbs})) + 1,
                interaction_id |-> iid, is_positive |-> positive]}

\* Lines 96-116: update the existing Feedback row of the interaction (the
\* first one the SELECT returns), or insert a new one.
UpsertFeedback(fbs, iid, positive) ==
    LET existing == {f \in fbs : f.interaction_id = iid} IN
    IF existing # {}
    THEN LET first == CHOOSE f \in existing : \A g \in existing : f.id <= g.id
         IN (fbs \ {first}) \cup {[first EXCEPT !.is_positive = positive]}
    ELSE fbs \cup {[id |-> NextId({f.id : f \in fbs}), interaction_id |-> iid,
                    is_positive |-> positive]}

\* Lines 87-116 (404 when the interaction does not exist).  fb is the
\* history: the polarity last submitted for each interaction, and whether a
\* submission ever reversed the one before it.
SubmitFeedback(iid, positive) ==
    /\ IF iid \notin interactions
       THEN UNCHANGED <<feedbacks, fb>>
       ELSE /\ feedbacks' = UpsertFeedback(feedbacks, iid, positive)
            /\ fb' = [fb EXCEPT ![iid] =
                        [latest |-> IF positive THEN "up" ELSE "down",
                         changed |-> @.changed \/ @.latest = (IF positive THEN "down" ELSE "up")]]
    /\ UNCHANGED <<documents, interactions, idocs, index, up, del, msg, alive, cited, agentVars, convVars>>

(***************************************************************************)
(* RAGAgent.ainvoke and RAGAgent.get_history (app/core/agent.py)           *)
(***************************************************************************)
Threads == {"x", "y", "z"} \* thread_id values
Procs == {1, 2}            \* callers of ainvoke that may be in flight together

\* The checkpointer keeps, for each thread_id, the latest checkpoint of the
\* agent's state: the list `messages`.  A message is
\* [type, content, tool_calls]; `turn` (history) numbers the ainvoke call
\* that produced it.  turns.started counts the calls made and turns.used
\* collects their thread ids (history).
NoCheckpoint == [exists |-> FALSE, messages |-> <<>>]

IdleTurn == [pc |-> "idle", thread |-> "none", n |-> 0, messages |-> <<>>, toolCalls |-> 0]

\* Faulty variant of Config: every call runs under one fixed thread_id.
ConfigShared(thread_id) == "x"

\* Line 126: the thread_id under which the agent loads and saves checkpoints
Config(thread_id) == thread_id

HumanMessage(turn) == [type |-> "human", content |-> "text", tool_calls |-> FALSE, turn |-> turn]

AIMessage(content, calls, turn) ==
    [type |-> "ai", content |-> content, tool_calls |-> calls, turn |-> turn]

ToolMessage(turn) == [type |-> "tool", content |-> "text", tool_calls |-> FALSE, turn |-> turn]

\* the checkpoint saved after a step: the messages of the run that saved it
Checkpoint(messages) == [exists |-> TRUE, messages |-> messages]

\* Lines 124-132: ainvoke(question, thread_id) starts; the agent loads the
\* thread's latest checkpoint and adds the question to its messages.
AinvokeStart(p, thread_id) ==
    /\ turns.calls[p].pc = "idle"
    /\ turns.started < MaxTurns
    /\ turns' = [started |-> turns.started + 1,
                 used |-> turns.used \cup {thread_id},
                 calls |-> [turns.calls EXCEPT ![p] =
                    [pc |-> "input", thread |-> thread_id, n |-> turns.started + 1,
                     messages |-> Append(history[Config(thread_id)].messages,
                                         HumanMessage(turns.started + 1)),
                     toolCalls |-> 0]]]
    /\ UNCHANGED <<documents, interactions, idocs, feedbacks, index, up, del, msg, fb, alive, cited, history, convVars>>

\* The agent saves the checkpoint that holds the question.
AinvokeInput(p) ==
    /\ turns.calls[p].pc = "input"
    /\ history' = [history EXCEPT ![Config(turns.calls[p].thread)] =
                                     Checkpoint(turns.calls[p].messages)]
    /\ turns' = [turns EXCEPT !.calls[p].pc = "model"]
    /\ UNCHANGED <<documents, interactions, idocs, feedbacks, index, up, del, msg, fb, alive, cited, convVars>>

\* A model step: the model answers with an AIMessage, which either asks for
\* tool calls (with or without text) or is the final answer; the checkpoint
\* after the step is saved.
AinvokeModel(p, content, calls) ==
    /\ turns.calls[p].pc = "model"
    /\ calls => turns.calls[p].toolCalls < MaxToolCalls
    /\ LET call == turns.calls[p]
           messages == Append(call.messages, AIMessage(content, calls, call.n))
       IN /\ history' = [history EXCEPT ![Config(call.thread)] = Checkpoint(messages)]
          /\ turns' = [turns EXCEPT !.calls[p].messages = messages,
                                    !.calls[p].pc = IF calls THEN "tools" ELSE "answered"]
    /\ UNCHANGED <<documents, interactions, idocs, feedbacks, index, up, del, msg, fb, alive, cited, convVars>>

\* A tool step: the ToolMessage with the result of retrieve_context is added
\* and the checkpoint saved.
AinvokeTools(p) ==
    /\ turns.calls[p].pc = "tools"
    /\ LET call == turns.calls[p]
           messages == Append(call.messages, ToolMessage(call.n))
       IN /\ history' = [history EXCEPT ![Config(call.thread)] = Checkpoint(messages)]
          /\ turns' = [turns EXCEPT !.calls[p].messages = messages,
                                    !.calls[p].toolCalls = @ + 1,
                                    !.calls[p].pc = "model"]
    /\ UNCHANGED <<documents, interactions, idocs, feedbacks, index, up, del, msg, fb, alive, cited, convVars>>

\* Lines 151-160: the model or a tool raises; ainvoke re-raises.  What the
\* run has saved stays saved.
AinvokeFail(p) ==
    /\ turns.calls[p].pc \in {"input", "model", "tools"}
    /\ turns' = [turns EXCEPT !.calls[p] = IdleTurn]
    /\ UNCHANGED <<documents, interactions, idocs, feedbacks, index, up, del, msg, fb, alive, cited, history, convVars>>

\* Lines 136-150: the structured response is there; ainvoke reads the
\* checkpoint id and returns.
AinvokeReturn(p) ==
    /\ turns.calls[p].pc = "answered"
    /\ turns' = [turns EXCEPT !.calls[p] = IdleTurn]
    /\ UNCHANGED <<documents, interactions, idocs, feedbacks, index, up, del, msg, fb, alive, cited, history, convVars>>

\* Faulty variant of GetHistory: a thread without a checkpoint is an error.
GetHistoryStrict(store, thread_id) ==
    IF store[thread_id].exists
    THEN [status |-> "ok", messages |-> store[thread_id].messages]
    ELSE [status |-> "error", messages |-> <<>>]

\* Lines 162-169: the messages of the thread's state, the empty list when
\* the state has no values.  (The checkpointer is always set, lines 173-184.)
GetHistory(store, thread_id) ==
    IF store[thread_id].exists /\ store[thread_id].messages # <<>>
    THEN [status |-> "ok", messages |-> store[thread_id].messages]
    ELSE [status |-> "ok", messages |-> <<>>]

(***************************************************************************)
(* Conversation routes (app/api/routes/conversations.py)                   *)
(***************************************************************************)
Users == {"u1", "u2"}      \* user.id of the authenticated caller
Titles == {"", "t"}        \* data.title of a request; "" stands for no title

\* A Conversation row is [id, user_id, title, created_at, updated_at]; its id
\* is the thread_id of its message history.  clock.now is the time the
\* latest timestamp was taken at, clock.issued the uuids drawn so far.
NoConversation == [id |-> "none", title |-> "", created_at |-> 0, updated_at |-> 0]

ConversationPublic(c) ==
    [id |-> c.id, title |-> c.title, created_at |-> c.created_at, updated_at |-> c.updated_at]

\* The response of a conversation request: the status code, the detail or
\* message string, the ConversationPublic and the message list it carries.
Response(op, user, id, status, detail, conversation, messages) ==
    [op |-> op, user |-> user, id |-> id, status |-> status, detail |-> detail,
     conversation |-> conversation, messages |-> messages]

NoReply == Response("none", "none", "none", 0, "", NoConversation, <<>>)

\* HTTPException(status_code=404, detail="Conversation not found")
NotFound(op, user, id) ==
    Response(op, user, id, 404, "Conversation not found", NoConversation, <<>>)

\* Faulty variant of Owned: the owner is not compared with the caller.
OwnedByAnyone(rows, conversation_id, user) == {c \in rows : c.id = conversation_id}

\* db.get(Conversation, conversation_id) followed by the test
\* `not conversation or conversation.user_id != user.id`: the row the request
\* may go on with, if any.
Owned(rows, conversation_id, user) ==
    {c \in rows : c.id = conversation_id /\ c.user_id = user}

\* Lines 45-66: a row with a fresh uuid is committed for the caller.
CreateConversation(user, title) ==
    /\ Cardinality(clock.issued) < MaxConversations
    /\ clock.now < MaxClock
    /\ \E id \in Threads \ clock.issued :
          LET c == [id |-> id, user_id |-> user,
                    title |-> IF title # "" THEN title ELSE "New Conversation",
                    created_at |-> clock.now + 1, updated_at |-> clock.now + 1]
          IN /\ conversations' = conversations \cup {c}
             /\ clock' = [now |-> clock.now + 1, issued |-> clock.issued \cup {id}]
             /\ reply' = Response("create", user, id, 200, "", ConversationPublic(c), <<>>)
    /\ UNCHANGED <<documents, interactions, idocs, feedbacks, index, up, del, msg, fb, alive, cited, agentVars>>

\* Lines 69-85
GetConversation(user, conversation_id) ==
    /\ LET own == Owned(conversations, conversation_id, user) IN
       reply' = IF own = {}
                THEN NotFound("get", user, conversation_id)
                ELSE Response("get", user, conversation_id, 200, "",
                              ConversationPublic(CHOOSE c \in own : TRUE), <<>>)
    /\ UNCHANGED <<documents, interactions, idocs, feedbacks, index, up, del, msg, fb, alive, cited, agentVars, conversations, clock>>

\* Faulty variant of Transcript: every assistant message is shown.
RECURSIVE TranscriptAllAssistant(_)
TranscriptAllAssistant(messages) ==
    IF messages = <<>> THEN <<>>
    ELSE LET m == Head(messages)
             rest == TranscriptAllAssistant(Tail(messages))
         IN IF m.type = "human" THEN <<[role |-> "user", content |-> m.content]>> \o rest
            ELSE IF m.type = "ai" THEN <<[role |-> "assistant", content |-> m.content]>> \o rest
            ELSE rest

\* Lines 102-112: the loop that builds the result of
\* get_conversation_messages from the stored messages.
RECURSIVE Transcript(_)
Transcript(messages) ==
    IF messages = <<>> THEN <<>>
    ELSE LET m == Head(messages)
             rest == Transcript(Tail(messages))
         IN IF m.type = "human" THEN <<[role |-> "user", content |-> m.content]>> \o rest
            ELSE IF m.type = "ai"
                 THEN IF m.content # ""
                      THEN <<[role |-> "assistant", content |-> m.content]>> \o rest
                      ELSE rest
            ELSE rest

\* Lines 88-112
GetConversationMessages(user, conversation_id) ==
    /\ LET own == Owned(conversations, conversation_id, user) IN
       reply' = IF own = {}
                THEN NotFound("messages", user, conversation_id)
                ELSE Response("messages", user, conversation_id, 200, "", NoConversation,
                              Transcript(GetHistory(history, Config(conversation_id)).messages))
    /\ UNCHANGED <<documents, interactions, idocs, feedbacks, index, up, del, msg, fb, alive, cited, agentVars, conversations, clock>>

\* Lines 115-129
DeleteConversation(user, conversation_id) ==
    /\ LET own == Owned(conversations, conversation_id, user) IN
       IF own = {}
       THEN /\ reply' = NotFound("delete", user, conversation_id)
            /\ UNCHANGED conversations
       ELSE /\ conversations' = conversations \ own
            /\ reply' = Response("delete", user, conversation_id, 200,
                                 "Conversation deleted", NoConversation, <<>>)
    /\ UNCHANGED <<documents, interactions, idocs, feedbacks, index, up, del, msg, fb, alive, cited, agentVars, clock>>

\* Lines 132-157: the title and updated_at change only with a title given.
UpdateConversation(user, conversation_id, title) ==
    /\ clock.now < MaxClock
    /\ LET own == Owned(conversations, conversation_id, user) IN
       IF own = {}
       THEN /\ reply' = NotFound("update", user, conversation_id)
            /\ UNCHANGED <<conversations, clock>>
       ELSE LET c == CHOOSE r \in own : TRUE
                new == IF title # ""
                       THEN [c EXCEPT !.title = title, !.updated_at = clock.now + 1]
                       ELSE c
            IN /\ conversations' = (conversations \ {c}) \cup {new}
               /\ clock' = IF title # "" THEN [clock EXCEPT !.now = @ + 1] ELSE clock
               /\ reply' = Response("update", user, conversation_id, 200, "",
                                    ConversationPublic(new), <<>>)
    /\ UNCHANGED <<documents, interactions, idocs, feedbacks, index, up, del, msg, fb, alive, cited, agentVars>>

(***************************************************************************)
(* Specification                                                           *)
(***************************************************************************)
Init ==
    /\ documents = {}
    /\ interactions = {}
    /\ idocs = {}
    /\ feedbacks = {}
    /\ index = <<>>
    /\ up = IdleUpload
    /\ del = "idle"
    /\ msg = IdleMsg
    /\ fb = [i \in InteractionIds |-> [latest |-> "none", changed |-> FALSE]]
    /\ alive = TRUE
    /\ cited = {}
    /\ history = [t \in Threads |-> NoCheckpoint]
    /\ turns = [started |-> 0, used |-> {}, calls |-> [p \in Procs |-> IdleTurn]]
    /\ conversations = {}
    /\ reply = NoReply
    /\ clock = [now |-> 0, issued |-> {}]

\* no request is in flight
Quiet == up.pc = "idle" /\ del = "idle" /\ msg.pc = "idle"

\* document.py 58-62: the process is started again after a purge; the store
\* gets a handle to a fresh, empty collection.
Restart ==
    /\ Quiet
    /\ ~alive
    /\ alive' = TRUE
    /\ index' = <<>>
    /\ UNCHANGED <<documents, interactions, idocs, feedbacks, up, del, msg, fb, cited, agentVars, convVars>>

Batches == SeqOfLen(UploadFiles, MaxBatch) \ {<<>>}

ClaimLists == SeqOfLen(ClaimNames, MaxClaims)

\* an upload request that carries one file
SingleFileBatches == {<<f>> : f \in UploadFiles}

\* The chat service.  Requests are served one after the other; the states
\* between the steps of a handler are states of the database and of the index
\* all the same.  Documents arrive one file per upload request.
Next ==
    \/ \E files \in SingleFileBatches, elsewhere \in BOOLEAN :
          Quiet /\ UploadStart(files, elsewhere)
    \/ UploadProcess
    \/ UploadCleanup
    \/ UploadReturn
    \/ Quiet /\ DeleteAllDocsRows
    \/ DeleteAllDocsIndex
    \/ DeleteAllDocsFail
    \/ Restart
    \/ Quiet /\ MsgStart
    \/ MsgRetrieveCheck
    \/ MsgRetrieveSearch
    \/ MsgToolResult
    \/ MsgAgentFail
    \/ \E claimed \in ClaimLists : MsgAgentOk(claimed)
    \/ MsgLoopStep
    \/ MsgCommit
    \/ MsgReturn

Spec == Init /\ [][Next]_vars

\* The document side alone: upload requests with batches of files, and
\* delete-all requests, served one after the other.
NextDocs ==
    \/ \E files \in Batches, elsewhere \in BOOLEAN : Quiet /\ UploadStart(files, elsewhere)
    \/ UploadProcess
    \/ UploadCleanup
    \/ UploadReturn
    \/ Quiet /\ DeleteAllDocsRows
    \/ DeleteAllDocsIndex
    \/ Restart

SpecDocs == Init /\ [][NextDocs]_vars

\* The chat side alone: message turns and feedback submissions.  No document
\* is ever uploaded, so every claimed name is discarded.
NextFeedback ==
    \/ Quiet /\ MsgStart
    \/ MsgAgentFail
    \/ \E claimed \in ClaimLists : MsgAgentOk(claimed)
    \/ MsgLoopStep
    \/ MsgCommit
    \/ MsgReturn
    \/ \E iid \in InteractionIds, positive \in BOOLEAN : Quiet /\ SubmitFeedback(iid, positive)

SpecFeedback == Init /\ [][NextFeedback]_vars

\* The agent alone: callers invoke turns on conversation threads, with no
\* coordination between them.  A model step either asks for a tool call
\* (no text) or gives the final answer.
NextAgent ==
    \/ \E p \in Procs, thread_id \in Threads : AinvokeStart(p, thread_id)
    \/ \E p \in Procs : AinvokeInput(p)
    \/ \E p \in Procs : AinvokeModel(p, "", TRUE) \/ AinvokeModel(p, "text", FALSE)
    \/ \E p \in Procs : AinvokeTools(p)
    \/ \E p \in Procs : AinvokeFail(p)
    \/ \E p \in Procs : AinvokeReturn(p)

SpecAgent == Init /\ [][NextAgent]_vars

\* filenames as a client may put them in the multipart body
RawNames == SeqOfLen(Chars, MaxNameLen) \ {<<>>}

\* Uploads whose filenames the client chooses freely, and retrieval over what
\* they stored.
NextPath ==
    \/ \E name \in RawNames, elsewhere \in BOOLEAN :
          /\ Quiet
          /\ Cardinality(documents) < MaxDocs
          /\ UploadStart(<<[filename |-> name, pdf |-> TRUE]>>, elsewhere)
    \/ UploadProcess
    \/ UploadCleanup
    \/ UploadReturn
    \/ Quiet /\ MsgStart
    \/ MsgRetrieveCheck
    \/ MsgRetrieveSearch
    \/ MsgToolResult
    \/ MsgAgentFail
    \/ MsgReturn

SpecPath == Init /\ [][NextPath]_vars

\* The chat service with its purge unserialized: delete_all_docs is a sync
\* route served from the threadpool, so a delete-all request runs beside a
\* message request that is in flight, and the other way round.  SQLite
\* admits one writer: while the message's transaction holds flushed usage
\* rows, the purge's DELETE waits.  Uploads are still served alone.
NextRace ==
    \/ \E files \in SingleFileBatches, elsewhere \in BOOLEAN :
          Quiet /\ UploadStart(files, elsewhere)
    \/ UploadProcess
    \/ UploadCleanup
    \/ UploadReturn
    \/ up.pc = "idle" /\ msg.flushed = {} /\ DeleteAllDocsRows
    \/ DeleteAllDocsIndex
    \/ DeleteAllDocsFail
    \/ Restart
    \/ up.pc = "idle" /\ MsgStart
    \/ MsgRetrieveCheck
    \/ MsgRetrieveSearch
    \/ MsgToolResult
    \/ MsgAgentFail
    \/ \E claimed \in ClaimLists : MsgAgentOk(claimed)
    \/ MsgLoopStep
    \/ MsgCommit
    \/ MsgReturn

SpecRace == Init /\ [][NextRace]_vars

\* The document side with its requests overlapping: delete_all_docs is a
\* sync route served from the threadpool, so both of its steps run beside an
\* upload request, which may also arrive between them.  One upload and one
\* delete-all are in flight at a time.
NextDocsRace ==
    \/ \E files \in Batches, elsewhere \in BOOLEAN :
          msg.pc = "idle" /\ UploadStart(files, elsewhere)
    \/ UploadProcess
    \/ UploadCleanup
    \/ UploadReturn
    \/ msg.pc = "idle" /\ DeleteAllDocsRows
    \/ DeleteAllDocsIndex
    \/ Restart

SpecDocsRace == Init /\ [][NextDocsRace]_vars

\* The conversation routes alone: both users create, read, rename and delete
\* conversations by id, whoever owns them.
NextConversations ==
    \/ \E user \in Users, title \in Titles : CreateConversation(user, title)
    \/ \E user \in Users, id \in Threads : GetConversation(user, id)
    \/ \E user \in Users, id \in Threads : GetConversationMessages(user, id)
    \/ \E user \in Users, id \in Threads : DeleteConversation(user, id)
    \/ \E user \in Users, id \in Threads, title \in Titles : UpdateConversation(user, id, title)

SpecConversations == Init /\ [][NextConversations]_vars

\* A conversation with its history: turns run on the thread of the
\* conversation a user created, one at a time, and the user reads the
\* transcript at any point.  A model step gives any of the four kinds of AIMessage.
NextTranscript ==
    \/ conversations = {} /\ CreateConversation("u1", "")
    \/ \E c \in conversations : AinvokeStart(1, c.id)
    \/ AinvokeInput(1)
    \/ \E content \in {"", "text"}, calls \in BOOLEAN : AinvokeModel(1, content, calls)
    \/ AinvokeTools(1)
    \/ AinvokeReturn(1)
    \/ \E c \in conversations : GetConversationMessages("u1", c.id)

SpecTranscript == Init /\ [][NextTranscript]_vars

(***************************************************************************)
(* Properties                                                              *)
(***************************************************************************)
\* s without the repeats of its elements, in order of first occurrence
RECURSIVE Dedup(_)
Dedup(s) ==
    IF s = <<>> THEN <<>>
    ELSE <<Head(s)>> \o Dedup(SelectSeq(Tail(s), LAMBDA x : x # Head(s)))

\* the claimed names that have a Document row, repeats collapsed
Accepted(claimed, docs) ==
    Dedup(SelectSeq(claimed, LAMBDA n : FindDocument(docs, n) # {}))

\* the committed usage rows of one interaction
RowsOf(iid) == {r \in idocs : r.interaction_id = iid}

\* the usage rows the message request in flight has added and not committed
Uncommitted == msg.flushed \cup Range(msg.pending)

\* C1: for every claimed list, repeats included, the message operation
\* completes (no failure after the agent has answered), and on return
\* source_documents is the list of accepted filenames, each once, in order of
\* first occurrence; the interaction has exactly one usage row per accepted
\* filename, ordered like the list, and no two rows share
\* (interaction_id, document_id).
C1_DedupFirstOccurrence ==
    /\ msg.pc = "failed" => msg.error = "agent"
    /\ msg.pc = "returned" =>
         LET acc == Accepted(msg.claimed, documents)
             rows == RowsOf(msg.interaction_id)
         IN /\ msg.used = acc
            /\ Cardinality(rows) = Len(acc)
            /\ \A r1, r2 \in rows : Key(r1) = Key(r2) => r1 = r2
            /\ \A k \in 1..Len(acc) :
                  \E r \in rows : \E d \in documents :
                     /\ d.id = r.document_id
                     /\ d.filename = acc[k]
                     /\ \A l \in 1..(k - 1) : \E r0 \in rows : \E d0 \in documents :
                           /\ d0.id = r0.document_id
                           /\ d0.filename = acc[l]
                           /\ r0.usage_order < r.usage_order

\* C2: no state shows a committed Interaction whose accepted usage rows are
\* not committed yet, nor a committed usage row without its Interaction.
C2_SameCommitUnit ==
    /\ \A r \in idocs : r.interaction_id \in interactions
    /\ \A r \in Uncommitted : r.interaction_id \notin interactions

\* C3: in every state a filename has a committed Document row if and only if
\* the index holds chunks of it.
C3_RowIffChunks ==
    \A name \in Filenames :
       (FindDocument(documents, name) # {}) <=> (ChunksOf(index, name) # {})

\* C4: when the upload has gone through its cleanup, every file whose
\* processing failed has no Document row and no chunk in the index, and every
\* other processed file of the batch has its Document row and all its chunks.
C4_PerFileRollback ==
    up.pc = "returned" =>
       \A i \in 1..Len(up.valid) :
          LET doc == up.valid[i].doc IN
          /\ up.results[i] = "error" =>
                /\ doc \notin documents
                /\ FindDocument(documents, doc.filename) = {}
                /\ ChunksOf(index, doc.filename) = {}
          /\ up.results[i] = "ok" =>
                /\ doc \in documents
                /\ Cardinality(ChunksOf(index, doc.filename)) = ChunksPerDoc

\* C4 witness: a returned upload with at least two processed files, one of
\* which failed and one of which succeeded.
C4_Witness ==
    /\ up.pc = "returned"
    /\ Len(up.valid) >= 2
    /\ \E i, j \in 1..Len(up.valid) : up.results[i] = "error" /\ up.results[j] = "ok"

\* C5: when the agent invocation fails, the turn ends with the one error
\* outcome and that step writes nothing: Interaction, InteractionDocument and
\* every other table are as they were.
C5_AgentFailureWritesNothing ==
    [][(msg.pc = "invoking" /\ msg'.pc = "failed") =>
          /\ msg'.error = "agent"
          /\ UNCHANGED <<documents, interactions, idocs, feedbacks, index>>]_vars

\* C5 witness: a turn has ended in the agent-failure outcome.
C5_Witness == msg.pc = "failed" /\ msg.error = "agent"

\* C6: for any claimed list the message operation succeeds; every usage row
\* it writes refers to a Document that exists, source_documents holds only
\* filenames of existing Documents, and unmatched names are in neither.
C6_UnknownCitationSafety ==
    /\ msg.pc = "failed" => msg.error = "agent"
    /\ \A r \in Uncommitted : \E d \in documents : d.id = r.document_id
    /\ msg.pc = "returned" =>
         /\ \A r \in RowsOf(msg.interaction_id) : \E d \in documents : d.id = r.document_id
         /\ \A k \in 1..Len(msg.used) : FindDocument(documents, msg.used[k]) # {}
         /\ \A k \in 1..Len(msg.claimed) :
               FindDocument(documents, msg.claimed[k]) = {} =>
                  /\ msg.claimed[k] \notin Range(msg.used)
                  /\ \A r \in RowsOf(msg.interaction_id) : r.usage_order # k

\* number of positions of s that satisfy Test
Count(s, Test(_)) == Cardinality({i \in 1..Len(s) : Test(s[i])})

C8_FeedbackUpsert ==
    \A iid \in InteractionIds :
       LET rows == {f \in feedbacks : f.interaction_id = iid} IN
       /\ Cardinality(rows) <= 1
       /\ fb[iid].latest = "none" => rows = {}
       /\ fb[iid].latest # "none" =>
             \E f \in rows : f.is_positive = (fb[iid].latest = "up")

\* C8 witness: an interaction whose feedback was submitted again with the
\* opposite polarity.
C8_Witness ==
    \E iid \in InteractionIds :
       /\ fb[iid].changed
       /\ \E f \in feedbacks : f.interaction_id = iid

\* the pdf files of the request that come before position i and carry `name`
EarlierSameName(i, name) ==
    {j \in 1..(i - 1) : up.files[j].pdf /\ up.files[j].filename = name}

\* C9: no two Document rows share a filename; a pdf file whose filename has a
\* Document row already (from before the request, or from an earlier file of
\* the batch) is reported failed, gets no Document row, is not stored, and
\* adds no chunks: a filename never has more than one document's chunks.
C9_FilenameUnique ==
    /\ \A d1, d2 \in documents : d1.filename = d2.filename => d1 = d2
    /\ \A name \in Filenames : Cardinality(ChunksOf(index, name)) <= ChunksPerDoc
    /\ up.pc # "idle" =>
         \A name \in Filenames :
            LET pdfs == Count(up.files, LAMBDA f : f.pdf /\ f.filename = name)
                created == Count(up.valid, LAMBDA v : v.doc.filename = name)
                stored == Count(up.written, LAMBDA n : n = name)
                refused == Count(up.failed, LAMBDA e : e.filename = name /\ e.error = "exists")
                existed == FindDocument(up.before, name) # {}
            IN /\ created = (IF existed \/ pdfs = 0 THEN 0 ELSE 1)
               /\ stored = created
               /\ refused = pdfs - created
               /\ existed => FindDocument(up.before, name) \subseteq documents

\* C9 witness: an upload refused one file because an earlier file of the same
\* batch had the name, and another because the name was stored before.
C9_Witness ==
    /\ up.pc # "idle"
    /\ \E i \in 1..Len(up.files) :
          /\ up.files[i].pdf
          /\ EarlierSameName(i, up.files[i].filename) # {}
          /\ FindDocument(up.before, up.files[i].filename) = {}
    /\ \E i \in 1..Len(up.files) :
          /\ up.files[i].pdf
          /\ FindDocument(up.before, up.files[i].filename) # {}
    /\ \E k \in 1..Len(up.failed) : up.failed[k].error = "exists"

\* C10: when the index is empty at the call, retrieve_context returns the
\* advisory string and does not call similarity_search; a call of
\* similarity_search happens only on a non-empty index.
C10_EmptyIndexFallback ==
    (msg.pc = "invoking" /\ msg.toolCalls > 0 /\ ~msg.retrieving) =>
       /\ msg.emptyAtCall => (msg.tool.text = Advisory /\ ~msg.tool.searched)
       /\ msg.tool.searched => ~msg.emptyAtCall

\* C10 witness: the tool was called on an empty index.
C10_Witness ==
    /\ msg.pc = "invoking"
    /\ msg.toolCalls > 0
    /\ ~msg.retrieving
    /\ msg.emptyAtCall
    /\ msg.tool.text = Advisory

\* the values of the "Source: " lines of a tool result, in order
SourceMarkers(lines) ==
    LET sources == SelectSeq(lines, LAMBDA line : line.tag = "Source: ")
    IN [k \in 1..Len(sources) |-> sources[k].value]

\* path is name, or ends in a separator followed by name
EndsWithName(path, name) ==
    /\ Len(name) <= Len(path)
    /\ SubSeq(path, Len(path) - Len(name) + 1, Len(path)) = name
    /\ Len(name) < Len(path) => path[Len(path) - Len(name)] = "/"

\* C11: in a tool result, the source marker of the block of every hit is the
\* filename its storage path ends in, holds no path separator, and is the
\* filename of the Document row created by the upload that stored the file.
C11_SourceMarkerRoundTrip ==
    msg.tool.text = "context" =>
       /\ Len(SourceMarkers(msg.tool.lines)) = Len(msg.hits)
       /\ \A k \in 1..Len(msg.hits) :
             LET path == msg.hits[k].source
                 marker == SourceMarkers(msg.tool.lines)[k]
             IN /\ "/" \notin Range(marker)
                /\ marker # <<>>
                /\ EndsWithName(path, marker)
                /\ \E d \in documents : FilePath(d.filename) = path
                /\ \A d \in documents : FilePath(d.filename) = path => d.filename = marker

\* C12: on a non-empty index the tool searches with k = 4 and returns one
\* block per hit, in the order of the hits: a "Source: " line with the bare
\* filename of the hit, then the chunk text, a blank line between blocks; at
\* most 4 blocks, each with its Source marker.
C12_SerializedBlocks ==
    (msg.pc = "invoking" /\ msg.tool.text = "context") =>
       LET lines == msg.tool.lines
           n == Len(msg.hits)
       IN /\ n = Min(SearchK, Len(index))
          /\ n >= 1 /\ n <= 4
          /\ \A k \in 1..n : \E i \in 1..Len(index) : index[i] = msg.hits[k]
          /\ Len(lines) = 3 * n - 1
          /\ \A k \in 1..n :
                /\ lines[3 * k - 2].tag = "Source: "
                /\ "/" \notin Range(lines[3 * k - 2].value)
                /\ EndsWithName(msg.hits[k].source, lines[3 * k - 2].value)
                /\ lines[3 * k - 1] = [tag |-> "Content: ", value |-> msg.hits[k].content]
                /\ k < n => lines[3 * k] = BlankLine

\* C12 witness: a tool result of four blocks over an index of more than four
\* chunks, from two files.
C12_Witness ==
    /\ msg.pc = "invoking"
    /\ msg.tool.text = "context"
    /\ Len(msg.hits) = 4
    /\ Len(index) > 4
    /\ \E j, k \in 1..4 : msg.hits[j].source # msg.hits[k].source

\* the thread_id of the ainvoke call of p that takes the step
SteppingThread(p) ==
    IF turns.calls[p].pc = "idle" THEN turns'.calls[p].thread ELSE turns.calls[p].thread

\* C13: a step of a turn invoked with thread_id X leaves get_history(Y)
\* as it was for every Y other than X, and get_history of an identity that
\* never had a turn is the empty sequence, not an error.
C13_ConversationIsolation ==
    /\ [](\A t \in Threads \ turns.used :
            GetHistory(history, t) = [status |-> "ok", messages |-> <<>>])
    /\ [][\A p \in Procs :
            turns'.calls[p] # turns.calls[p] =>
               \A y \in Threads \ {SteppingThread(p)} :
                  GetHistory(history', y) = GetHistory(history, y)]_vars

\* C13 witness: a turn on one thread has its answer saved while another
\* thread holds a history of its own and a third never had a turn.
C13_Witness ==
    \E p \in Procs :
       /\ turns.calls[p].pc = "answered"
       /\ GetHistory(history, turns.calls[p].thread).messages # <<>>
       /\ \E y \in turns.used \ {turns.calls[p].thread} : GetHistory(history, y).messages # <<>>
       /\ Threads \ turns.used # {}

\* the ainvoke calls in flight on a thread
InFlight(t) == {p \in Procs : turns.calls[p].pc # "idle" /\ turns.calls[p].thread = t}

\* a turn's messages: the user message, its tool calls and tool messages,
\* then the final answer
CompleteTurn(messages) ==
    /\ Len(messages) >= 2
    /\ messages[1].type = "human"
    /\ messages[Len(messages)].type = "ai" /\ ~messages[Len(messages)].tool_calls
    /\ \A i \in 2..(Len(messages) - 1) : messages[i].type # "human"

\* C14: no two ainvoke calls with the same thread_id are in flight together,
\* and a thread's stored history is whole turns one after the other: the
\* messages of a turn are adjacent, and every turn that is not in flight is
\* complete.
C14_TurnsSerialized ==
    \A t \in Threads :
       LET messages == history[t].messages IN
       /\ Cardinality(InFlight(t)) <= 1
       /\ \A i, k \in 1..Len(messages) :
             (i < k /\ messages[i].turn = messages[k].turn) =>
                \A j \in i..k : messages[j].turn = messages[i].turn
       /\ \A n \in {messages[i].turn : i \in 1..Len(messages)} :
             (\A p \in InFlight(t) : turns.calls[p].n # n) =>
                CompleteTurn(SelectSeq(messages, LAMBDA m : m.turn = n))

(***************************************************************************)
(* C15: a full purge appears atomic to a retrieval that overlaps it: the   *)
(* call sees the index as it was before the purge or sees it empty; it     *)
(* never finds is_empty false and then searches a collection the purge has *)
(* deleted already.                                                        *)
(***************************************************************************)
C15_PurgeAtomicToRetrieval ==
    /\ ~msg.onPurged
    /\ (msg.tool.searched /\ ~msg.emptyAtCall) => msg.tool.text = "context"

(***************************************************************************)
(* C16: for get, get messages, rename and delete, a request by a user who  *)
(* does not own the conversation gets the same not-found response as a     *)
(* request for an id that does not exist, and the conversation rows stay   *)
(* as they are; only the owner reads, renames or deletes a conversation.   *)
(***************************************************************************)
ConversationOps == {"get", "messages", "update", "delete"}

C16_UniformNotFound ==
    [][((reply' # reply \/ conversations' # conversations)
          /\ reply'.op \in ConversationOps
          /\ ~ \E c \in conversations : c.id = reply'.id /\ c.user_id = reply'.user)
        => (/\ reply' = Response(reply'.op, reply'.user, reply'.id, 404,
                                 "Conversation not found", NoConversation, <<>>)
            /\ conversations' = conversations)]_vars

\* A rename or delete aimed at another user's conversation was answered, and
\* the conversation is there.
C16_Witness ==
    /\ reply.op \in {"update", "delete"}
    /\ reply.status = 404
    /\ \E c \in conversations : c.id = reply.id /\ c.user_id # reply.user

(***************************************************************************)
(* C17: the transcript of get_conversation_messages holds exactly the user *)
(* messages and the assistant messages with non-empty content of the       *)
(* stored sequence, in their stored order; tool results and assistant      *)
(* messages with empty content do not appear.                              *)
(***************************************************************************)
Shown(m) == m.type = "human" \/ (m.type = "ai" /\ m.content # "")

C17_TranscriptFilter ==
    [][(reply' # reply /\ reply'.op = "messages" /\ reply'.status = 200)
        => LET kept == SelectSeq(history[reply'.id].messages, Shown) IN
           reply'.messages =
              [i \in 1..Len(kept) |->
                  [role |-> IF kept[i].type = "human" THEN "user" ELSE "assistant",
                   content |-> kept[i].content]]]_vars

\* A transcript was read from a history that holds a tool result and an
\* assistant message without content, and shows an assistant message.
C17_Witness ==
    /\ reply.op = "messages"
    /\ reply.status = 200
    /\ \E i \in 1..Len(reply.messages) : reply.messages[i].role = "assistant"
    /\ LET stored == history[reply.id].messages IN
          /\ \E i \in 1..Len(stored) : stored[i].type = "tool"
          /\ \E i \in 1..Len(stored) : stored[i].type = "ai" /\ stored[i].content = ""
          /\ reply.messages = Transcript(stored)

(***************************************************************************)
(* C18: the usage rows of an interaction record the citation order: of two *)
(* accepted documents the one claimed earlier has the strictly smaller     *)
(* usage_order, so the rows read back by usage_order, as                   *)
(* get_recent_interactions does, give the source_documents of the message  *)
(* response, also with discarded names between accepted ones.              *)
(***************************************************************************)
C18_UsageOrderIsCitationOrder ==
    msg.pc = "returned" =>
       /\ UsedDocuments(documents, idocs, msg.interaction_id) = {msg.used}
       /\ \A i, k \in 1..Len(msg.used) : i < k =>
             \E r1, r2 \in RowsOf(msg.interaction_id), d1, d2 \in documents :
                /\ d1.filename = msg.used[i] /\ r1.document_id = d1.id
                /\ d2.filename = msg.used[k] /\ r2.document_id = d2.id
                /\ r1.usage_order < r2.usage_order

\* A turn returned two sources, cited against the order of the documents'
\* ids and with a discarded name claimed between them.
C18_Witness ==
    /\ msg.pc = "returned"
    /\ Len(msg.used) = 2
    /\ \E d1, d2 \in documents :
          d1.filename = msg.used[1] /\ d2.filename = msg.used[2] /\ d1.id > d2.id
    /\ \E i, j, k \in 1..Len(msg.claimed) :
          /\ i < j /\ j < k
          /\ msg.claimed[i] = msg.used[1]
          /\ msg.claimed[k] = msg.used[2]
          /\ FindDocument(documents, msg.claimed[j]) = {}

(***************************************************************************)
(* C19: referential integrity of the usage rows across purges: every       *)
(* InteractionDocument row refers to a Document row that exists and is the *)
(* document that was cited; a delete-all followed by uploads never leaves  *)
(* a usage row pointing at a missing document or at another document.      *)
(***************************************************************************)
C19_UsageRowsReferToCitedDocument ==
    \A r \in idocs :
       \E d \in documents :
          /\ d.id = r.document_id
          /\ \E c \in cited :
                /\ c.interaction_id = r.interaction_id
                /\ c.document_id = r.document_id
                /\ c.filename = d.filename

\* A usage row refers to a Document row of another filename than the one
\* cited.
C19_RowPointsAtOtherDocument ==
    \E r \in idocs, d \in documents, c \in cited :
       /\ d.id = r.document_id
       /\ c.interaction_id = r.interaction_id
       /\ c.document_id = r.document_id
       /\ c.filename # d.filename

(***************************************************************************)
(* C20: when a delete-all request interleaves with an upload request that  *)
(* is waiting for its embeddings, then with both requests finished the     *)
(* filenames with a Document row are the filenames with chunks in the      *)
(* index, and the upload's cleanup has not failed on a row the purge       *)
(* removed.                                                                *)
(***************************************************************************)
C20_UploadPurgeConsistent ==
    (/\ up.pc \in {"returned", "failed"}
     /\ up.rowsPurged \/ up.indexPurged
     /\ del = "idle")
    => /\ up.pc = "returned"
       /\ \A name \in Filenames :
             (FindDocument(documents, name) # {}) <=> (ChunksOf(index, name) # {})

\* The same with the whole delete-all request inside the upload's wait.
C20_WholePurgeInsideUpload ==
    (/\ up.pc \in {"returned", "failed"}
     /\ up.rowsPurged /\ up.indexPurged
     /\ del = "idle")
    => /\ up.pc = "returned"
       /\ \A name \in Filenames :
             (FindDocument(documents, name) # {}) <=> (ChunksOf(index, name) # {})

\* With requests served one after the other, documents and index agree
\* whenever no request is in flight.
C20_ConsistentWhenQuiet ==
    Quiet => \A name \in Filenames :
                (FindDocument(documents, name) # {}) <=> (ChunksOf(index, name) # {})

====
